---- MODULE Spec2Model ----
(***************************************************************************)
(* A model of kind-config's Form (src/src/lib.rs): a map from parameter    *)
(* names to Parameters {value, about, frozen}, built with item and         *)
(* transformed by the merge_* functions and freeze.  Every method takes    *)
(* the Form by value, so a call that returns Err (or panics) consumes the  *)
(* Form; the model keeps the state the Form had at that return in `form`   *)
(* for inspection, and the only operation enabled afterwards is            *)
(* Form::new().  `pre` is the Form the last call received, so that what a  *)
(* call did can be read off a single state.                                *)
(***************************************************************************)
EXTENDS Integers, Sequences, FiniteSets, TLC

VARIABLES
    form,   \* Form.parameter_map: [declared keys -> Parameter]
    pre,    \* parameter_map of the Form the last call was made on (its self)
    call,   \* the last call made on the Form: its name and its arguments
    out,    \* what the last call returned: Ok, Err(key, why) or a panic
    string_map, \* the string map that the last call of a to_string_map
                \* function returned to the program
    supplied    \* history, kept by the specification SpecFreezing: for each key
                \* that a merge_value_map_freezing call froze and that was not
                \* declared again since, the value that call gave it

vars == <<form, pre, call, out, string_map, supplied>>

----------------------------------------------------------------------------
(* Bounds and input domains *)

MaxInt == 0

Keys == {"a", "b"}
RawStrings == {"true", "-0", "NaN"}

\* f64 payloads by bit pattern: +0.0, -0.0 and a NaN
Floats == {"+0.0", "-0.0", "NaN"}

BoolValues == {[kind |-> "B", v |-> b] : b \in BOOLEAN}
IntValues == {[kind |-> "I", v |-> i] : i \in 0..MaxInt}
FloatValues == {[kind |-> "F", v |-> f] : f \in Floats}
StrValues == {[kind |-> "S", v |-> s] : s \in RawStrings}
Values == BoolValues \cup IntValues \cup FloatValues \cup StrValues

\* the (key, default, about) triples that item is called with: "a" is declared
\* with every value, "b" as a bool flag
Declarations ==
    {<<"a", x, "d1">> : x \in Values}
        \cup {<<"a", [kind |-> "F", v |-> "+0.0"], "d2">>}
        \cup {<<"b", x, "d1">> : x \in BoolValues}

Abouts == {d[3] : d \in Declarations}

\* the update maps that the merge_value_map functions are called with: any
\* value for "a", a bool or an int for "b"
ValueMaps ==
    {m \in UNION {[S -> Values] : S \in SUBSET Keys} :
        "b" \in DOMAIN m => m["b"] \in BoolValues \cup {[kind |-> "I", v |-> 0]}}

\* the string maps that merge_string_map is called with
StringMaps == UNION {[S -> RawStrings] : S \in SUBSET Keys}

\* the to_freeze vectors that merge_value_map_freezing is called with
FreezeLists == {<<"a">>, <<"b", "a">>}

\* the command-line arguments that merge_string_args is called with, each
\* with its text cut at the '=' characters: the pieces are '=' itself and the
\* maximal runs of other characters
MaxArgs == 2

ArgPieces ==
    [a \in {"a=true", "a=-0", "b=NaN", "a 2", "=true", "a=", "a=b=NaN"} |->
        CASE a = "a=true" -> <<"a", "=", "true">>
          [] a = "a=-0" -> <<"a", "=", "-0">>
          [] a = "b=NaN" -> <<"b", "=", "NaN">>
          [] a = "a 2" -> <<"a 2">>
          [] a = "=true" -> <<"=", "true">>
          [] a = "a=" -> <<"a", "=">>
          [] a = "a=b=NaN" -> <<"a", "=", "b", "=", "NaN">>]

ArgStrings == {"a=true", "a=-0", "a 2"}

ArgLists == UNION {[1..n -> ArgStrings] : n \in 0..MaxArgs}

\* the argument sequences that the to_string_map functions are called with
\* directly
MaxPairs == 3

PairStrings == DOMAIN ArgPieces

PairLists == UNION {[1..n -> PairStrings] : n \in 0..MaxPairs}

----------------------------------------------------------------------------
(* Value *)

\* f64's PartialEq: NaN differs from everything, +0.0 == -0.0
f64_eq(a, b) ==
    /\ a # "NaN"
    /\ b # "NaN"
    /\ \/ a = b
       \/ {a, b} = {"+0.0", "-0.0"}

\* same_kind_as taking the two numeric kinds for one
same_kind_as_numeric(self, other) ==
    \/ self.kind = other.kind
    \/ {self.kind, other.kind} = {"I", "F"}

\* same_kind_as accepting every pair
same_kind_as_any(self, other) == TRUE

same_kind_as(self, other) ==
    CASE self.kind = "B" /\ other.kind = "B" -> TRUE
      [] self.kind = "I" /\ other.kind = "I" -> TRUE
      [] self.kind = "F" /\ other.kind = "F" -> TRUE
      [] self.kind = "S" /\ other.kind = "S" -> TRUE
      [] OTHER -> FALSE

\* same_as comparing the kinds only
same_as_kind_only(self, other) == self.kind = other.kind

same_as(self, other) ==
    CASE self.kind = "B" /\ other.kind = "B" -> self.v = other.v
      [] self.kind = "I" /\ other.kind = "I" -> self.v = other.v
      [] self.kind = "F" /\ other.kind = "F" -> f64_eq(self.v, other.v)
      [] self.kind = "S" /\ other.kind = "S" -> self.v = other.v
      [] OTHER -> FALSE

----------------------------------------------------------------------------
(* ConfigError and call outcomes *)

Ok == [tag |-> "Ok", key |-> "", why |-> ""]
ConfigError(key, why) == [tag |-> "Err", key |-> key, why |-> why]
Panic == [tag |-> "Panic", key |-> "", why |-> "called unwrap on None"]

----------------------------------------------------------------------------
(* Maps *)

EmptyMap == <<>>

insert(m, k, x) == [j \in DOMAIN m \cup {k} |-> IF j = k THEN x ELSE m[j]]

\* every order in which a HashMap with key set S may be iterated
Orders(S) ==
    {o \in [1..Cardinality(S) -> S] : \A i, j \in DOMAIN o : o[i] = o[j] => i = j}

----------------------------------------------------------------------------
(* Form *)

Parameter(value, about, frozen) ==
    [value |-> value, about |-> about, frozen |-> frozen]

new == EmptyMap

\* item keeping the frozen flag of a parameter it replaces
item_keep_frozen(self, key, default, about) ==
    insert(self, key, Parameter(default, about,
                                IF key \in DOMAIN self THEN self[key].frozen ELSE FALSE))

item(self, key, default, about) ==
    insert(self, key, Parameter(default, about, FALSE))

\* merge_value_map without the assignment item.value = new_value
RECURSIVE merge_value_map_no_store(_, _, _)
merge_value_map_no_store(self, items, order) ==
    IF order = <<>>
    THEN [form |-> self, out |-> Ok]
    ELSE LET key == Head(order)
             new_value == items[key]
         IN  IF key \in DOMAIN self
             THEN IF ~same_kind_as(self[key].value, new_value)
                  THEN [form |-> self, out |-> ConfigError(key, "has the wrong type")]
                  ELSE IF self[key].frozen /\ ~same_as(self[key].value, new_value)
                  THEN [form |-> self, out |-> ConfigError(key, "cannot be modified")]
                  ELSE merge_value_map_no_store(self, items, Tail(order))
             ELSE [form |-> self, out |-> ConfigError(key, "is not a valid key")]

\* merge_value_map assigning the value before the frozen check
RECURSIVE merge_value_map_store_first(_, _, _)
merge_value_map_store_first(self, items, order) ==
    IF order = <<>>
    THEN [form |-> self, out |-> Ok]
    ELSE LET key == Head(order)
             new_value == items[key]
             stored == [self EXCEPT ![key].value = new_value]
         IN  IF key \in DOMAIN self
             THEN IF ~same_kind_as(self[key].value, new_value)
                  THEN [form |-> self, out |-> ConfigError(key, "has the wrong type")]
                  ELSE IF self[key].frozen /\ ~same_as(self[key].value, new_value)
                  THEN [form |-> stored, out |-> ConfigError(key, "cannot be modified")]
                  ELSE merge_value_map_store_first(stored, items, Tail(order))
             ELSE [form |-> self, out |-> ConfigError(key, "is not a valid key")]

\* merge_value_map inserting the keys it does not find
RECURSIVE merge_value_map_upsert(_, _, _)
merge_value_map_upsert(self, items, order) ==
    IF order = <<>>
    THEN [form |-> self, out |-> Ok]
    ELSE LET key == Head(order)
             new_value == items[key]
         IN  IF key \in DOMAIN self
             THEN IF ~same_kind_as(self[key].value, new_value)
                  THEN [form |-> self, out |-> ConfigError(key, "has the wrong type")]
                  ELSE IF self[key].frozen /\ ~same_as(self[key].value, new_value)
                  THEN [form |-> self, out |-> ConfigError(key, "cannot be modified")]
                  ELSE merge_value_map_upsert([self EXCEPT ![key].value = new_value],
                                              items, Tail(order))
             ELSE merge_value_map_upsert(
                      insert(self, key, [value |-> new_value, about |-> "", frozen |-> FALSE]),
                      items, Tail(order))

\* merge_value_map testing the frozen flag before the kind
RECURSIVE merge_value_map_frozen_first(_, _, _)
merge_value_map_frozen_first(self, items, order) ==
    IF order = <<>>
    THEN [form |-> self, out |-> Ok]
    ELSE LET key == Head(order)
             new_value == items[key]
         IN  IF key \in DOMAIN self
             THEN IF self[key].frozen /\ ~same_as(self[key].value, new_value)
                  THEN [form |-> self, out |-> ConfigError(key, "cannot be modified")]
                  ELSE IF ~same_kind_as(self[key].value, new_value)
                  THEN [form |-> self, out |-> ConfigError(key, "has the wrong type")]
                  ELSE merge_value_map_frozen_first([self EXCEPT ![key].value = new_value],
                                                    items, Tail(order))
             ELSE [form |-> self, out |-> ConfigError(key, "is not a valid key")]

\* merge_value_map returning Ok from inside the loop, after its first entry
merge_value_map_first_only(self, items, order) ==
    IF order = <<>>
    THEN [form |-> self, out |-> Ok]
    ELSE LET key == Head(order)
             new_value == items[key]
         IN  IF key \in DOMAIN self
             THEN IF ~same_kind_as(self[key].value, new_value)
                  THEN [form |-> self, out |-> ConfigError(key, "has the wrong type")]
                  ELSE IF self[key].frozen /\ ~same_as(self[key].value, new_value)
                  THEN [form |-> self, out |-> ConfigError(key, "cannot be modified")]
                  ELSE [form |-> [self EXCEPT ![key].value = new_value], out |-> Ok]
             ELSE [form |-> self, out |-> ConfigError(key, "is not a valid key")]

\* the loop of merge_value_map over the entries of items in iteration order
RECURSIVE merge_value_map(_, _, _)
merge_value_map(self, items, order) ==
    IF order = <<>>
    THEN [form |-> self, out |-> Ok]
    ELSE LET key == Head(order)
             new_value == items[key]
         IN  IF key \in DOMAIN self
             THEN IF ~same_kind_as(self[key].value, new_value)
                  THEN [form |-> self, out |-> ConfigError(key, "has the wrong type")]
                  ELSE IF self[key].frozen /\ ~same_as(self[key].value, new_value)
                  THEN [form |-> self, out |-> ConfigError(key, "cannot be modified")]
                  ELSE merge_value_map([self EXCEPT ![key].value = new_value],
                                       items, Tail(order))
             ELSE [form |-> self, out |-> ConfigError(key, "is not a valid key")]

\* the loop over to_freeze without the test items.contains_key(key)
RECURSIVE freeze_listed_all(_, _, _)
freeze_listed_all(result, items, to_freeze) ==
    IF to_freeze = <<>>
    THEN [form |-> result, out |-> Ok]
    ELSE LET key == Head(to_freeze)
         IN  IF key \in DOMAIN result
             THEN freeze_listed_all([result EXCEPT ![key].frozen = TRUE],
                                    items, Tail(to_freeze))
             ELSE [form |-> result, out |-> Panic]

\* the loop over to_freeze that follows a successful merge
RECURSIVE freeze_listed(_, _, _)
freeze_listed(result, items, to_freeze) ==
    IF to_freeze = <<>>
    THEN [form |-> result, out |-> Ok]
    ELSE LET key == Head(to_freeze)
         IN  IF key \in DOMAIN items
             THEN IF key \in DOMAIN result
                  THEN freeze_listed([result EXCEPT ![key].frozen = TRUE],
                                     items, Tail(to_freeze))
                  ELSE [form |-> result, out |-> Panic]
             ELSE freeze_listed(result, items, Tail(to_freeze))

\* merge_value_map_freezing setting the frozen flags before it merges
merge_value_map_freezing_freeze_first(self, items, order, to_freeze) ==
    merge_value_map([k \in DOMAIN self |->
                       IF k \in DOMAIN items /\ \E i \in DOMAIN to_freeze : to_freeze[i] = k
                       THEN [self[k] EXCEPT !.frozen = TRUE]
                       ELSE self[k]],
                    items, order)

\* merge_value_map_freezing running its freeze loop after a failed merge too
merge_value_map_freezing_ignoring_error(self, items, order, to_freeze) ==
    LET merged == merge_value_map(self, items, order)
        frozen == freeze_listed(merged.form, items, to_freeze)
    IN  IF frozen.out = Panic
        THEN frozen
        ELSE [form |-> frozen.form, out |-> merged.out]

merge_value_map_freezing(self, items, order, to_freeze) ==
    LET merged == merge_value_map(self, items, order)
    IN  IF merged.out.tag # "Ok"
        THEN merged
        ELSE freeze_listed(merged.form, items, to_freeze)

\* freeze setting the flag of every parameter
freeze_every_key(self, key) ==
    IF key \in DOMAIN self
    THEN [form |-> [k \in DOMAIN self |-> [self[k] EXCEPT !.frozen = TRUE]], out |-> Ok]
    ELSE [form |-> self, out |-> Panic]

freeze(self, key) ==
    IF key \in DOMAIN self
    THEN [form |-> [self EXCEPT ![key].frozen = TRUE], out |-> Ok]
    ELSE [form |-> self, out |-> Panic]

\* str::parse::<bool>
parse_bool(v) ==
    IF v \in {"true", "false"}
    THEN [ok |-> TRUE, value |-> [kind |-> "B", v |-> (v = "true")]]
    ELSE [ok |-> FALSE, value |-> [kind |-> "B", v |-> FALSE]]

\* str::parse::<i64> on the strings of the model
parse_i64(v) ==
    CASE v \in {"0", "-0", "+0"} -> [ok |-> TRUE, value |-> [kind |-> "I", v |-> 0]]
      [] v \in {"1", "+1"} -> [ok |-> TRUE, value |-> [kind |-> "I", v |-> 1]]
      [] OTHER -> [ok |-> FALSE, value |-> [kind |-> "I", v |-> 0]]

\* str::parse::<f64> on the strings of the model
parse_f64(v) ==
    CASE v \in {"0", "+0", "0.0"} -> [ok |-> TRUE, value |-> [kind |-> "F", v |-> "+0.0"]]
      [] v \in {"-0", "-0.0"} -> [ok |-> TRUE, value |-> [kind |-> "F", v |-> "-0.0"]]
      [] v = "NaN" -> [ok |-> TRUE, value |-> [kind |-> "F", v |-> "NaN"]]
      [] OTHER -> [ok |-> FALSE, value |-> [kind |-> "F", v |-> "NaN"]]

\* str::parse::<String> never fails
parse_String(v) == [ok |-> TRUE, value |-> [kind |-> "S", v |-> v]]

\* the loop of string_map_to_value_map over dict in iteration order, result
\* being the map built so far
RECURSIVE string_map_to_value_map_from(_, _, _, _)
string_map_to_value_map_from(self, dict, order, result) ==
    IF order = <<>>
    THEN [out |-> Ok, items |-> result]
    ELSE LET k == Head(order)
             v == dict[k]
         IN  IF k \notin DOMAIN self
             THEN [out |-> ConfigError(k, "is not a valid key"), items |-> result]
             ELSE LET kind == self[k].value.kind
                      parsed == CASE kind = "B" -> parse_bool(v)
                                  [] kind = "I" -> parse_i64(v)
                                  [] kind = "F" -> parse_f64(v)
                                  [] kind = "S" -> parse_String(v)
                      why == CASE kind = "B" -> "is a badly formed bool"
                               [] kind = "I" -> "is a badly formed int"
                               [] kind = "F" -> "is a badly formed float"
                               [] kind = "S" -> "is a badly formed string"
                  IN  IF ~parsed.ok
                      THEN [out |-> ConfigError(k, why), items |-> result]
                      ELSE string_map_to_value_map_from(
                               self, dict, Tail(order), insert(result, k, parsed.value))

string_map_to_value_map(self, dict, order) ==
    string_map_to_value_map_from(self, dict, order, EmptyMap)

\* merge_string_map storing the converted values itself
merge_string_map_unchecked(self, dict, order, items_order) ==
    LET converted == string_map_to_value_map(self, dict, order)
    IN  IF converted.out.tag # "Ok"
        THEN [form |-> self, out |-> converted.out]
        ELSE [form |-> [k \in DOMAIN self |->
                           IF k \in DOMAIN converted.items
                           THEN [self[k] EXCEPT !.value = converted.items[k]]
                           ELSE self[k]],
              out |-> Ok]

\* merge_string_map converting and merging one entry after the other
RECURSIVE merge_string_map_entrywise(_, _, _, _)
merge_string_map_entrywise(self, dict, order, items_order) ==
    IF order = <<>>
    THEN [form |-> self, out |-> Ok]
    ELSE LET k == Head(order)
             converted == string_map_to_value_map(self, [x \in {k} |-> dict[k]], <<k>>)
         IN  IF converted.out.tag # "Ok"
             THEN [form |-> self, out |-> converted.out]
             ELSE LET merged == merge_value_map(self, converted.items, <<k>>)
                  IN  IF merged.out.tag # "Ok"
                      THEN merged
                      ELSE merge_string_map_entrywise(merged.form, dict, Tail(order),
                                                      items_order)

\* order: iteration order of dict; items_order: iteration order of the
\* converted map
merge_string_map(self, dict, order, items_order) ==
    LET converted == string_map_to_value_map(self, dict, order)
    IN  IF converted.out.tag # "Ok"
        THEN [form |-> self, out |-> converted.out]
        ELSE merge_value_map(self, converted.items, items_order)

\* str::split('=') on the pieces of a string: the texts between the '='
RECURSIVE split(_)
split(pieces) ==
    IF pieces = <<>>
    THEN <<"">>
    ELSE IF Head(pieces) = "="
    THEN <<"">> \o split(Tail(pieces))
    ELSE LET rest == split(Tail(pieces))
         IN  <<Head(pieces)>> \o Tail(rest)

left_and_right_hand_side(a) ==
    LET lr == split(ArgPieces[a])
    IN  IF Len(lr) # 2
        THEN [out |-> ConfigError(a, "is a badly formed argument"), key |-> "", value |-> ""]
        ELSE [out |-> Ok, key |-> lr[1], value |-> lr[2]]

\* the loop of the parser keeping the first value seen for a key
RECURSIVE to_string_map_from_first_wins(_, _, _)
to_string_map_from_first_wins(args, allow_duplicates, result) ==
    IF args = <<>>
    THEN [out |-> Ok, map |-> result]
    ELSE LET kv == left_and_right_hand_side(Head(args))
         IN  IF kv.out.tag # "Ok"
             THEN [out |-> kv.out, map |-> result]
             ELSE IF ~allow_duplicates /\ kv.key \in DOMAIN result
             THEN [out |-> ConfigError(kv.key, "duplicate parameter"), map |-> result]
             ELSE to_string_map_from_first_wins(
                      Tail(args), allow_duplicates,
                      IF kv.key \in DOMAIN result THEN result
                      ELSE insert(result, kv.key, kv.value))

\* the loop of the parser over args, result being the map built so far
RECURSIVE to_string_map_from(_, _, _)
to_string_map_from(args, allow_duplicates, result) ==
    IF args = <<>>
    THEN [out |-> Ok, map |-> result]
    ELSE LET kv == left_and_right_hand_side(Head(args))
         IN  IF kv.out.tag # "Ok"
             THEN [out |-> kv.out, map |-> result]
             ELSE IF ~allow_duplicates /\ kv.key \in DOMAIN result
             THEN [out |-> ConfigError(kv.key, "duplicate parameter"), map |-> result]
             ELSE to_string_map_from(Tail(args), allow_duplicates,
                                     insert(result, kv.key, kv.value))

to_string_map_from_key_val_pairs_general(args, allow_duplicates) ==
    to_string_map_from(args, allow_duplicates, EmptyMap)

to_string_map_from_key_val_pairs(args) ==
    to_string_map_from_key_val_pairs_general(args, FALSE)

to_string_map_from_key_val_pairs_allowing_duplicates(args) ==
    to_string_map_from_key_val_pairs_general(args, TRUE)

\* the key strings of the model in the order of str's Ord (byte order)
KeyOrder == <<"a", "b">>

\* x < y on Strings
str_lt(x, y) ==
    \E i, j \in DOMAIN KeyOrder : KeyOrder[i] = x /\ KeyOrder[j] = y /\ i < j

\* Vec::sort, as an insertion of each element before the first larger one
RECURSIVE sort(_)
sort(v) ==
    IF v = <<>>
    THEN <<>>
    ELSE LET x == v[Len(v)]
             sorted == sort(SubSeq(v, 1, Len(v) - 1))
             n == Cardinality({i \in DOMAIN sorted : ~str_lt(x, sorted[i])})
         IN  SubSeq(sorted, 1, n) \o <<x>> \o SubSeq(sorted, n + 1, Len(sorted))

\* sorted_keys returning the keys as collected
sorted_keys_unsorted(self, order) == order

\* order: the order in which parameter_map.keys() yields the keys
sorted_keys(self, order) == sort(order)

value_map(self) == [key \in DOMAIN self |-> self[key].value]

len(self) == Cardinality(DOMAIN self)

get(self, key) == self[key].value

about(self, key) == self[key].about

is_frozen(self, key) == self[key].frozen

----------------------------------------------------------------------------
(* The calls a program makes on its Form *)

NoCall ==
    [op |-> "new", key |-> "", value |-> [kind |-> "S", v |-> ""], about |-> "",
     items |-> EmptyMap, to_freeze |-> <<>>, dict |-> EmptyMap, args |-> <<>>]

Alive == out.tag = "Ok"

Init ==
    /\ pre = new
    /\ form = new
    /\ call = NoCall
    /\ out = Ok
    /\ string_map = EmptyMap
    /\ supplied = EmptyMap

New ==
    /\ UNCHANGED string_map
    /\ supplied' = EmptyMap
    /\ pre' = new
    /\ form' = new
    /\ call' = NoCall
    /\ out' = Ok

Item ==
    /\ UNCHANGED string_map
    /\ pre' = form
    /\ Alive
    /\ \E d \in Declarations :
         /\ form' = item(form, d[1], d[2], d[3])
         /\ call' = [NoCall EXCEPT !.op = "item", !.key = d[1],
                                   !.value = d[2], !.about = d[3]]
         /\ supplied' = [k \in DOMAIN supplied \ {d[1]} |-> supplied[k]]
    /\ out' = Ok

MergeValueMap ==
    /\ UNCHANGED <<string_map, supplied>>
    /\ pre' = form
    /\ Alive
    /\ \E items \in ValueMaps :
         \E order \in Orders(DOMAIN items) :
           LET r == merge_value_map(form, items, order)
           IN  /\ form' = r.form
               /\ out' = r.out
               /\ call' = [NoCall EXCEPT !.op = "merge_value_map", !.items = items]

MergeValueMapFreezing ==
    /\ UNCHANGED <<string_map, supplied>>
    /\ pre' = form
    /\ Alive
    /\ \E items \in ValueMaps, to_freeze \in FreezeLists :
         \E order \in Orders(DOMAIN items) :
           LET r == merge_value_map_freezing(form, items, order, to_freeze)
           IN  /\ form' = r.form
               /\ out' = r.out
               /\ call' = [NoCall EXCEPT !.op = "merge_value_map_freezing",
                                         !.items = items, !.to_freeze = to_freeze]

MergeStringMap ==
    /\ UNCHANGED <<string_map, supplied>>
    /\ pre' = form
    /\ Alive
    /\ \E dict \in StringMaps :
         \E order, items_order \in Orders(DOMAIN dict) :
           LET r == merge_string_map(form, dict, order, items_order)
           IN  /\ form' = r.form
               /\ out' = r.out
               /\ call' = [NoCall EXCEPT !.op = "merge_string_map", !.dict = dict]

\* merge_string_args and merge_string_args_allowing_duplicates
MergeStringArgs ==
    /\ UNCHANGED <<string_map, supplied>>
    /\ pre' = form
    /\ Alive
    /\ \E args \in ArgLists, allow_duplicates \in BOOLEAN :
         LET res == to_string_map_from_key_val_pairs_general(args, allow_duplicates)
             op == IF allow_duplicates THEN "merge_string_args_allowing_duplicates"
                                       ELSE "merge_string_args"
         IN  /\ call' = [NoCall EXCEPT !.op = op, !.args = args]
             /\ IF res.out.tag # "Ok"
                THEN /\ form' = form
                     /\ out' = res.out
                ELSE \E order, items_order \in Orders(DOMAIN res.map) :
                       LET r == merge_string_map(form, res.map, order, items_order)
                       IN  /\ form' = r.form
                           /\ out' = r.out

Freeze ==
    /\ UNCHANGED <<string_map, supplied>>
    /\ pre' = form
    /\ Alive
    /\ \E key \in Keys :
         LET r == freeze(form, key)
         IN  /\ form' = r.form
             /\ out' = r.out
             /\ call' = [NoCall EXCEPT !.op = "freeze", !.key = key]

Next ==
    \/ New
    \/ Item
    \/ MergeValueMap
    \/ MergeValueMapFreezing
    \/ MergeStringMap
    \/ MergeStringArgs
    \/ Freeze

Spec == Init /\ [][Next]_vars

----------------------------------------------------------------------------
(* The to_string_map functions called on their own *)

\* to_string_map_from_key_val_pairs and
\* to_string_map_from_key_val_pairs_allowing_duplicates: free functions of
\* their argument list alone, applied once to each list
ToStringMap ==
    /\ call = NoCall
    /\ \E args \in PairLists, allow_duplicates \in BOOLEAN :
         LET res == IF allow_duplicates
                    THEN to_string_map_from_key_val_pairs_allowing_duplicates(args)
                    ELSE to_string_map_from_key_val_pairs(args)
             op == IF allow_duplicates
                   THEN "to_string_map_from_key_val_pairs_allowing_duplicates"
                   ELSE "to_string_map_from_key_val_pairs"
         IN  /\ call' = [NoCall EXCEPT !.op = op, !.args = args]
             /\ out' = res.out
             /\ string_map' = IF res.out.tag = "Ok" THEN res.map ELSE EmptyMap
    /\ UNCHANGED <<form, pre, supplied>>

NextArgs == ToStringMap

SpecArgs == Init /\ [][NextArgs]_vars

\* merge_value_map_freezing, with the history of the values it froze
MergeValueMapFreezingSupplied ==
    /\ UNCHANGED string_map
    /\ pre' = form
    /\ Alive
    /\ \E items \in ValueMaps, to_freeze \in FreezeLists :
         \E order \in Orders(DOMAIN items) :
           LET r == merge_value_map_freezing(form, items, order, to_freeze)
               fresh == {k \in DOMAIN items \cap DOMAIN form :
                           /\ \E i \in DOMAIN to_freeze : to_freeze[i] = k
                           /\ ~is_frozen(form, k)}
           IN  /\ form' = r.form
               /\ out' = r.out
               /\ call' = [NoCall EXCEPT !.op = "merge_value_map_freezing",
                                         !.items = items, !.to_freeze = to_freeze]
               /\ supplied' = IF r.out = Ok
                              THEN [k \in DOMAIN supplied \cup fresh |->
                                      IF k \in fresh THEN items[k] ELSE supplied[k]]
                              ELSE supplied

\* the calls that declare, merge and freeze
NextFreezing ==
    \/ New
    \/ Item
    \/ MergeValueMap
    \/ MergeValueMapFreezingSupplied
    \/ Freeze

SpecFreezing == Init /\ [][NextFreezing]_vars

----------------------------------------------------------------------------
(* Properties *)

\* C1: merge_value_map with an update map whose entries all name declared,
\* non-frozen keys and carry values of the declared kind succeeds; afterwards
\* get(K) is the new value for every K of the update map and every other key
\* keeps its previous value.
C1_MergeStoresSameKindValues ==
    (/\ call.op = "merge_value_map"
     /\ \A k \in DOMAIN call.items :
          /\ k \in DOMAIN pre
          /\ ~pre[k].frozen
          /\ pre[k].value.kind = call.items[k].kind)
    => /\ out = Ok
       /\ DOMAIN form = DOMAIN pre
       /\ \A k \in DOMAIN form :
            get(form, k) = IF k \in DOMAIN call.items THEN call.items[k]
                                                       ELSE get(pre, k)

C1_Witness ==
    /\ call.op = "merge_value_map"
    /\ out = Ok
    /\ DOMAIN pre = {"a", "b"}
    /\ DOMAIN call.items = {"a"}
    /\ ~pre["a"].frozen
    /\ call.items["a"] # get(pre, "a")
    /\ get(form, "a") = call.items["a"]
    /\ get(form, "b") = get(pre, "b")

\* the entries of the last update map whose kind differs from the stored one
WrongKindKeys ==
    {k \in DOMAIN call.items \cap DOMAIN pre : pre[k].value.kind # call.items[k].kind}

\* the entries of the last update map that the frozen check rejects
FrozenRejectedKeys ==
    {k \in DOMAIN call.items \cap DOMAIN pre :
        /\ pre[k].frozen
        /\ pre[k].value.kind = call.items[k].kind
        /\ ~same_as(pre[k].value, call.items[k])}

\* C2 as stated: merge_value_map fails with 'has the wrong type' whenever the
\* update map holds a value of another kind for a declared key and holds no
\* undeclared key.
C2_WrongTypeWhenever ==
    (/\ call.op = "merge_value_map"
     /\ DOMAIN call.items \subseteq DOMAIN pre
     /\ WrongKindKeys # {})
    => /\ out.tag = "Err"
       /\ out.why = "has the wrong type"

\* C2 amended: merge_value_map fails with 'has the wrong type', naming a key
\* whose new value is of another kind, whenever the update map holds such a
\* key, holds no undeclared key and holds no entry that the frozen check
\* rejects; and merge_value_map never stores a value of a different kind.
C2_WrongTypeUnlessFrozenFirst ==
    call.op = "merge_value_map"
    => /\ (/\ DOMAIN call.items \subseteq DOMAIN pre
           /\ WrongKindKeys # {}
           /\ FrozenRejectedKeys = {})
          => /\ out.tag = "Err"
             /\ out.why = "has the wrong type"
             /\ out.key \in WrongKindKeys
       /\ \A k \in DOMAIN pre :
            /\ k \in DOMAIN form
            /\ form[k].value.kind = pre[k].value.kind

C2_Witness ==
    /\ call.op = "merge_value_map"
    /\ DOMAIN call.items = {"a", "b"}
    /\ DOMAIN pre = {"a", "b"}
    /\ WrongKindKeys = {"a"}
    /\ FrozenRejectedKeys = {}
    /\ out = ConfigError("a", "has the wrong type")
    /\ get(form, "a") = get(pre, "a")

\* C3 as stated: when merge_value_map fails, no parameter of the Form differs
\* from what it was before the merge.
C3_FailedMergeLeavesFormUnchanged ==
    (call.op = "merge_value_map" /\ out.tag = "Err") => form = pre

\* C3 amended: when merge_value_map fails, the key named in the error and
\* every key absent from the update map keep their pre-merge value, no key is
\* added or removed and no description or frozen flag changes; every other
\* key of the update map holds either its pre-merge value or, when it was
\* iterated before the failing key, its value from the update map.
C3_FailedMergeKeepsFailingKey ==
    (call.op = "merge_value_map" /\ out.tag = "Err")
    => /\ DOMAIN form = DOMAIN pre
       /\ \A k \in DOMAIN form :
            /\ about(form, k) = about(pre, k)
            /\ is_frozen(form, k) = is_frozen(pre, k)
            /\ (k \notin DOMAIN call.items \/ k = out.key)
                 => get(form, k) = get(pre, k)
            /\ k \in DOMAIN call.items
                 => get(form, k) \in {get(pre, k), call.items[k]}

C3_Witness ==
    /\ call.op = "merge_value_map"
    /\ out = ConfigError("a", "cannot be modified")
    /\ DOMAIN call.items = {"a", "b"}
    /\ DOMAIN pre = {"a", "b"}
    /\ get(form, "a") = get(pre, "a")
    /\ get(form, "b") = call.items["b"]
    /\ get(form, "b") # get(pre, "b")

\* the value that a string map supplies for key k of the Form self: its
\* string read as the kind stored under k
Supplied(self, dict, k) == string_map_to_value_map(self, dict, <<k>>).items[k]

\* C4 as stated, for a merge whose only entry is the frozen key K: a same-kind
\* value different from the stored one fails with 'cannot be modified', a
\* value identical to the stored one succeeds and leaves the Form as it was.
C4_FrozenMergeIdempotent ==
    \A k \in DOMAIN pre :
       LET merged ==
               IF call.op \in {"merge_value_map", "merge_value_map_freezing"}
                  /\ DOMAIN call.items = {k}
                  /\ call.items[k].kind = pre[k].value.kind
               THEN {call.items[k]}
               ELSE IF call.op = "merge_string_map"
                       /\ DOMAIN call.dict = {k}
                       /\ string_map_to_value_map(pre, call.dict, <<k>>).out = Ok
               THEN {Supplied(pre, call.dict, k)}
               ELSE {}
       IN  \A new_value \in merged :
              pre[k].frozen
              => IF new_value = get(pre, k)
                 THEN out = Ok /\ form = pre
                 ELSE out = ConfigError(k, "cannot be modified")

\* C5: a successful merge_value_map_freezing(updates, keys_to_freeze) sets
\* frozen for exactly the keys that are both in keys_to_freeze and in
\* updates; every other key keeps the frozen flag it had.
C5_FreezesListedUpdatedKeys ==
    (call.op = "merge_value_map_freezing" /\ out = Ok)
    => /\ DOMAIN form = DOMAIN pre
       /\ \A k \in DOMAIN form :
            is_frozen(form, k) =
                \/ is_frozen(pre, k)
                \/ /\ k \in DOMAIN call.items
                   /\ \E i \in DOMAIN call.to_freeze : call.to_freeze[i] = k

C5_Witness ==
    /\ call.op = "merge_value_map_freezing"
    /\ out = Ok
    /\ call.to_freeze = <<"b", "a">>
    /\ DOMAIN call.items = {"a"}
    /\ DOMAIN pre = {"a", "b"}
    /\ ~is_frozen(pre, "a")
    /\ ~is_frozen(pre, "b")
    /\ is_frozen(form, "a")
    /\ ~is_frozen(form, "b")

\* C6: no merge_value_map, merge_value_map_freezing, merge_string_map,
\* merge_string_args or freeze call, whether it succeeds or fails, changes the
\* kind of the value stored under a declared key.
C6_KindFixedAfterDeclaration ==
    call.op \notin {"new", "item"}
    => \A k \in DOMAIN pre :
          /\ k \in DOMAIN form
          /\ get(form, k).kind = get(pre, k).kind

C6_Witness ==
    /\ call.op = "merge_string_map"
    /\ out = ConfigError("a", "cannot be modified")
    /\ DOMAIN pre = {"a", "b"}
    /\ DOMAIN call.dict = {"a", "b"}
    /\ get(form, "b") # get(pre, "b")
    /\ get(form, "b").kind = get(pre, "b").kind

\* C7 as stated: whatever is called on the Form, a key that is frozen holds
\* afterwards the value it held when it was frozen.
C7_FrozenValueNeverChanges ==
    call.op # "new"
    => \A k \in DOMAIN pre :
          is_frozen(pre, k) => (k \in DOMAIN form /\ get(form, k) = get(pre, k))

\* C7 amended: as long as K is not declared again with item, a frozen key K
\* stays frozen and its value is never replaced by one that compares
\* different: get(K) is the value K held when it was frozen, or both are
\* float zeros (+0.0 and -0.0, which compare equal).
C7_FrozenValueKeptUpToEquality ==
    (call.op # "new")
    => \A k \in DOMAIN pre :
          (is_frozen(pre, k) /\ ~(call.op = "item" /\ call.key = k))
          => /\ k \in DOMAIN form
             /\ is_frozen(form, k)
             /\ \/ get(form, k) = get(pre, k)
                \/ /\ get(form, k).kind = "F"
                   /\ get(pre, k).kind = "F"
                   /\ {get(form, k).v, get(pre, k).v} = {"+0.0", "-0.0"}

C7_Witness ==
    /\ call.op = "merge_value_map"
    /\ out = Ok
    /\ "a" \in DOMAIN pre
    /\ is_frozen(pre, "a")
    /\ get(pre, "a") = [kind |-> "F", v |-> "+0.0"]
    /\ get(form, "a") = [kind |-> "F", v |-> "-0.0"]

\* the string map that the arguments of the last merge_string_args call
\* parse to, with the parser's outcome
ParsedArgs ==
    IF call.op = "merge_string_args_allowing_duplicates"
    THEN to_string_map_from_key_val_pairs_allowing_duplicates(call.args)
    ELSE to_string_map_from_key_val_pairs(call.args)

\* the keys of the map that the last merge call hands to the Form (for
\* merge_string_args, once its arguments have parsed)
MergedKeys ==
    CASE call.op \in {"merge_value_map", "merge_value_map_freezing"} -> DOMAIN call.items
      [] call.op = "merge_string_map" -> DOMAIN call.dict
      [] call.op \in {"merge_string_args", "merge_string_args_allowing_duplicates"} ->
             IF ParsedArgs.out = Ok THEN DOMAIN ParsedArgs.map ELSE {}
      [] OTHER -> {}

\* the key set that the last call leaves: item adds its key, new starts
\* empty, every other call keeps the keys
KeysAsDeclared ==
    DOMAIN form = CASE call.op = "new" -> {}
                    [] call.op = "item" -> DOMAIN pre \cup {call.key}
                    [] OTHER -> DOMAIN pre

C9_ItemReplacesParameter ==
    /\ call.op = "item"
         => /\ out = Ok
            /\ DOMAIN form = DOMAIN pre \cup {call.key}
            /\ \A k \in DOMAIN form :
                 form[k] = IF k = call.key
                           THEN [value |-> call.value, about |-> call.about,
                                 frozen |-> FALSE]
                           ELSE pre[k]
    /\ (call.op = "merge_value_map" /\ out = Ok)
         => \A k \in DOMAIN call.items :
               /\ k \in DOMAIN pre
               /\ call.items[k].kind = get(pre, k).kind

C9_Witness ==
    /\ call.op = "item"
    /\ call.key = "a"
    /\ DOMAIN pre = {"a", "b"}
    /\ is_frozen(pre, "a")
    /\ is_frozen(pre, "b")
    /\ get(pre, "a").kind # call.value.kind
    /\ about(pre, "a") # call.about
    /\ ~is_frozen(form, "a")
    /\ get(form, "a") = call.value
    /\ form["b"] = pre["b"]

\* what str::parse gives for the strings of the model, by kind
Parsed ==
    {<<"B", "true", [kind |-> "B", v |-> TRUE]>>,
     <<"I", "-0", [kind |-> "I", v |-> 0]>>,
     <<"F", "-0", [kind |-> "F", v |-> "-0.0"]>>,
     <<"F", "NaN", [kind |-> "F", v |-> "NaN"]>>}
        \cup {<<"S", v, [kind |-> "S", v |-> v]>> : v \in RawStrings}

\* the values that string v parses to as kind (none or one)
ParsedAs(kind, v) == {p[3] : p \in {q \in Parsed : q[1] = kind /\ q[2] = v}}

\* the entries of the last string map that string_map_to_value_map rejects
RejectedEntries ==
    {k \in DOMAIN call.dict :
        k \in DOMAIN pre => ParsedAs(get(pre, k).kind, call.dict[k]) = {}}

\* C10: merge_string_map(dict) fails with 'is not a valid key' for an
\* undeclared key and with 'is a badly formed bool/int/float' for a string
\* that does not parse to the declared kind, leaving the Form as it was;
\* otherwise it does what merge_value_map does with the map of the parsed
\* values: the same frozen check, the parsed values stored, the keys absent
\* from dict unchanged.
C10_StringMergeIsValueMergeOfParsed ==
    call.op = "merge_string_map"
    => IF RejectedEntries # {}
       THEN /\ out.tag = "Err"
            /\ out.key \in RejectedEntries
            /\ out.why = IF out.key \notin DOMAIN pre THEN "is not a valid key"
                          ELSE CASE get(pre, out.key).kind = "B" -> "is a badly formed bool"
                                 [] get(pre, out.key).kind = "I" -> "is a badly formed int"
                                 [] get(pre, out.key).kind = "F" -> "is a badly formed float"
                                 [] OTHER -> "is a badly formed string"
            /\ form = pre
       ELSE LET items == [k \in DOMAIN call.dict |->
                            CHOOSE x \in ParsedAs(get(pre, k).kind, call.dict[k]) : TRUE]
            IN  \E order \in Orders(DOMAIN items) :
                   LET r == merge_value_map(pre, items, order)
                   IN  form = r.form /\ out = r.out

C10_Witness ==
    /\ call.op = "merge_string_map"
    /\ out = Ok
    /\ DOMAIN pre = {"a", "b"}
    /\ call.dict = [a |-> "-0", b |-> "true"]
    /\ get(pre, "a") = [kind |-> "F", v |-> "NaN"]
    /\ get(form, "a") = [kind |-> "F", v |-> "-0.0"]
    /\ get(pre, "b") = [kind |-> "B", v |-> FALSE]
    /\ get(form, "b") = [kind |-> "B", v |-> TRUE]

\* the positions of the '=' characters in argument a
EqualSigns(a) == {i \in DOMAIN ArgPieces[a] : ArgPieces[a][i] = "="}

\* the text of argument a before its first '=' and after its last '='
TextBefore(a) == IF ArgPieces[a][1] = "=" THEN "" ELSE ArgPieces[a][1]
TextAfter(a) ==
    IF ArgPieces[a][Len(ArgPieces[a])] = "=" THEN "" ELSE ArgPieces[a][Len(ArgPieces[a])]

\* the last call was one of the to_string_map functions
IsToStringMap ==
    call.op \in {"to_string_map_from_key_val_pairs",
                 "to_string_map_from_key_val_pairs_allowing_duplicates"}

\* the positions of call.args that hold a key seen at an earlier position
RepeatPositions ==
    {j \in DOMAIN call.args :
        \E i \in 1..(j - 1) : TextBefore(call.args[i]) = TextBefore(call.args[j])}

\* C11: for a sequence of well-formed key=value arguments (one '=' each):
\* with duplicates disallowed, a key that occurs twice makes the call fail
\* with 'duplicate parameter'; with duplicates allowed, or when no key
\* repeats, the call succeeds and each key maps to the value of its last
\* occurrence in the sequence.
C11_DuplicatesFailOrLastWins ==
    (/\ IsToStringMap
     /\ \A i \in DOMAIN call.args : Cardinality(EqualSigns(call.args[i])) = 1)
    => IF call.op = "to_string_map_from_key_val_pairs" /\ RepeatPositions # {}
       THEN /\ out.tag = "Err"
            /\ out.why = "duplicate parameter"
            /\ \E j \in RepeatPositions : out.key = TextBefore(call.args[j])
       ELSE /\ out = Ok
            /\ DOMAIN string_map = {TextBefore(call.args[i]) : i \in DOMAIN call.args}
            /\ \A i \in DOMAIN call.args :
                 (\A j \in (i + 1)..Len(call.args) :
                     TextBefore(call.args[j]) # TextBefore(call.args[i]))
                 => string_map[TextBefore(call.args[i])] = TextAfter(call.args[i])

C11_Witness ==
    /\ call.op = "to_string_map_from_key_val_pairs_allowing_duplicates"
    /\ call.args = <<"a=true", "b=NaN", "a=-0">>
    /\ out = Ok
    /\ string_map = [a |-> "-0", b |-> "NaN"]

\* C12: every argument that the key=value parser accepts splits into exactly
\* two non-empty parts: an argument with no '=', with more than one '=', with
\* nothing before the '=' or with nothing after it makes the call fail with
\* 'is a badly formed argument' (read here with duplicates allowed, so that
\* no 'duplicate parameter' error can come first), so no accepted map has an
\* empty key or an empty value.
C12_AcceptedPartsNonEmpty ==
    IsToStringMap
    => /\ (/\ call.op = "to_string_map_from_key_val_pairs_allowing_duplicates"
           /\ \E i \in DOMAIN call.args :
                \/ Cardinality(EqualSigns(call.args[i])) # 1
                \/ TextBefore(call.args[i]) = ""
                \/ TextAfter(call.args[i]) = "")
          => (out.tag = "Err" /\ out.why = "is a badly formed argument")
       /\ out = Ok
          => \A k \in DOMAIN string_map : k # "" /\ string_map[k] # ""

\* C13: the result of merge_value_map does not depend on the order in which
\* the update map is iterated: every iteration order gives the same
\* success-or-failure outcome as the one the call took and, on success, the
\* same resulting Form.
C13_MergeOrderIndependent ==
    call.op = "merge_value_map"
    => \A order \in Orders(DOMAIN call.items) :
          LET r == merge_value_map(pre, call.items, order)
          IN  /\ r.out.tag = out.tag
              /\ out = Ok => r.form = form

C13_Witness ==
    /\ call.op = "merge_value_map"
    /\ out = Ok
    /\ DOMAIN call.items = {"a", "b"}
    /\ get(form, "a") # get(pre, "a")
    /\ get(form, "b") # get(pre, "b")

\* C14: in every reachable state, whatever order the map yields its keys
\* in, sorted_keys() holds every declared key exactly once, in ascending
\* order, and as many keys as len().
C14_SortedKeysListsDeclaredKeys ==
    \A order \in Orders(DOMAIN form) :
       LET keys == sorted_keys(form, order)
       IN  /\ Len(keys) = len(form)
           /\ {keys[i] : i \in DOMAIN keys} = DOMAIN form
           /\ \A i, j \in DOMAIN keys : i < j => str_lt(keys[i], keys[j])

C14_Witness ==
    /\ call.op = "merge_string_map"
    /\ out = Ok
    /\ DOMAIN form = {"a", "b"}
    /\ sorted_keys(form, <<"b", "a">>) = <<"a", "b">>
    /\ len(form) = 2

\* the first of the three checks that the entry (key, new_value) of a merge
\* into self does not pass, "" when it passes all three
FailedCheck(self, key, new_value) ==
    IF key \notin DOMAIN self THEN "is not a valid key"
    ELSE IF get(self, key).kind # new_value.kind THEN "has the wrong type"
    ELSE IF is_frozen(self, key) /\ ~same_as(get(self, key), new_value)
    THEN "cannot be modified"
    ELSE ""

IsValueMerge == call.op \in {"merge_value_map", "merge_value_map_freezing"}

\* C15: an entry of a merge is checked for an undeclared key, then for a
\* kind mismatch, then for a frozen violation: the error a merge returns is
\* the first check its entry does not pass (a frozen key given a value of
\* another kind is 'has the wrong type', never 'cannot be modified'), and a
\* value is stored only for an entry that passes all three checks.
C15_ChecksInFixedOrder ==
    IsValueMerge
    => /\ out.tag = "Err"
          => /\ out.key \in DOMAIN call.items
             /\ out.why = FailedCheck(pre, out.key, call.items[out.key])
       /\ out.why = "cannot be modified"
          => get(pre, out.key).kind = call.items[out.key].kind
       /\ \A k \in DOMAIN form :
            get(form, k) # get(pre, k)
            => /\ k \in DOMAIN call.items
               /\ FailedCheck(pre, k, call.items[k]) = ""
               /\ get(form, k) = call.items[k]

C15_Witness ==
    /\ call.op = "merge_value_map"
    /\ DOMAIN call.items = {"a", "b"}
    /\ DOMAIN pre = {"a", "b"}
    /\ is_frozen(pre, "a")
    /\ get(pre, "a").kind # call.items["a"].kind
    /\ out = ConfigError("a", "has the wrong type")
    /\ get(form, "b") # get(pre, "b")

\* C16: a frozen flag becomes true only through freeze(key) or through a
\* successful merge_value_map_freezing whose update map and freeze list both
\* hold the key; merge_value_map, merge_string_map and merge_string_args
\* change no frozen flag and no description; freeze(key) changes nothing but
\* the frozen flag of key; a frozen flag becomes false only when item
\* declares the key again.
C16_FrozenFlagFrame ==
    /\ \A k \in DOMAIN form :
         (is_frozen(form, k) /\ ~(k \in DOMAIN pre /\ is_frozen(pre, k)))
         => \/ call.op = "freeze" /\ call.key = k /\ out = Ok
            \/ /\ call.op = "merge_value_map_freezing"
               /\ out = Ok
               /\ k \in DOMAIN call.items
               /\ \E i \in DOMAIN call.to_freeze : call.to_freeze[i] = k
    /\ call.op \in {"merge_value_map", "merge_string_map", "merge_string_args",
                    "merge_string_args_allowing_duplicates"}
       => /\ DOMAIN form = DOMAIN pre
          /\ \A k \in DOMAIN form : /\ is_frozen(form, k) = is_frozen(pre, k)
                                    /\ about(form, k) = about(pre, k)
    /\ (call.op = "freeze" /\ out = Ok)
       => form = [pre EXCEPT ![call.key].frozen = TRUE]
    /\ \A k \in DOMAIN form \cap DOMAIN pre :
         (is_frozen(pre, k) /\ ~is_frozen(form, k))
         => call.op = "item" /\ call.key = k

C16_Witness ==
    /\ call.op = "freeze"
    /\ call.key = "a"
    /\ out = Ok
    /\ DOMAIN pre = {"a", "b"}
    /\ ~is_frozen(pre, "a")
    /\ is_frozen(form, "a")
    /\ ~is_frozen(form, "b")

\* K was frozen by an earlier merge_value_map_freezing call, and the last
\* call is a merge that gives K a value
LaterMerge(K) ==
    /\ IsValueMerge
    /\ K \in DOMAIN supplied
    /\ is_frozen(pre, K)
    /\ K \in DOMAIN call.items

\* the last call is a merge_value_map_freezing on the declared, not yet
\* frozen key K, with K in the update map and in the freeze list
FreezingMergeOn(K) ==
    /\ call.op = "merge_value_map_freezing"
    /\ K \in DOMAIN call.items \cap DOMAIN pre
    /\ \E i \in DOMAIN call.to_freeze : call.to_freeze[i] = K
    /\ ~is_frozen(pre, K)

\* C17 as stated: once merge_value_map_freezing froze K with a supplied
\* value, every later merge giving K a different value fails with 'cannot be
\* modified' and get(K) stays equal to the value supplied.
C17_LaterMergeCannotModify ==
    \A K \in DOMAIN supplied :
       /\ get(form, K) = supplied[K]
       /\ (LaterMerge(K) /\ call.items[K] # supplied[K])
          => (out.tag = "Err" /\ out.why = "cannot be modified")

\* C17 amended: merge_value_map_freezing on a declared, not yet frozen key K
\* of both the update map and the freeze list succeeds when every entry
\* passes its checks, and then holds the supplied value and is frozen. Until
\* K is declared again, every later merge giving K a value that is not
\* same_as the stored one fails, and an error about K is 'has the wrong
\* type' for a value of another kind and 'cannot be modified' otherwise; K
\* stays frozen and get(K) stays the value supplied, or a float zero of the
\* other sign.
C17_FreezingMergeFixesValue ==
    /\ \A K \in Keys :
         FreezingMergeOn(K)
         => /\ (\A k \in DOMAIN call.items : FailedCheck(pre, k, call.items[k]) = "")
               => out = Ok
            /\ out = Ok
               => /\ get(form, K) = call.items[K]
                  /\ is_frozen(form, K)
                  /\ K \in DOMAIN supplied
                  /\ supplied[K] = call.items[K]
    /\ \A K \in DOMAIN supplied :
         /\ K \in DOMAIN form
         /\ is_frozen(form, K)
         /\ \/ get(form, K) = supplied[K]
            \/ /\ get(form, K).kind = "F"
               /\ supplied[K].kind = "F"
               /\ {get(form, K).v, supplied[K].v} = {"+0.0", "-0.0"}
         /\ (LaterMerge(K) /\ ~same_as(get(pre, K), call.items[K]))
            => /\ out.tag = "Err"
               /\ out.key = K
                  => out.why = IF get(pre, K).kind = call.items[K].kind
                               THEN "cannot be modified"
                               ELSE "has the wrong type"

C17_Witness ==
    /\ call.op = "merge_value_map"
    /\ DOMAIN supplied = {"a"}
    /\ DOMAIN call.items = {"a"}
    /\ is_frozen(pre, "a")
    /\ call.items["a"] # supplied["a"]
    /\ call.items["a"].kind = supplied["a"].kind
    /\ out = ConfigError("a", "cannot be modified")
    /\ get(form, "a") = supplied["a"]

\* C18: merge_value_map_freezing never panics: it returns an error with no
\* frozen flag changed, or it succeeds, and then every key of the update
\* map is declared, so that every key its freeze loop looks up is found;
\* freeze lists may name undeclared keys.
C18_FreezingMergeNeverPanics ==
    call.op = "merge_value_map_freezing"
    => /\ out.tag # "Panic"
       /\ out.tag = "Err"
          => /\ DOMAIN form = DOMAIN pre
             /\ \A k \in DOMAIN form : is_frozen(form, k) = is_frozen(pre, k)
       /\ out = Ok
          => \A i \in DOMAIN call.to_freeze :
                call.to_freeze[i] \in DOMAIN call.items
                => call.to_freeze[i] \in DOMAIN form

C18_Witness ==
    /\ call.op = "merge_value_map_freezing"
    /\ out = Ok
    /\ call.to_freeze = <<"b", "a">>
    /\ DOMAIN pre = {"a"}
    /\ DOMAIN call.items = {"a"}
    /\ is_frozen(form, "a")

\* the text v does not parse to a value of the kind
ParseFails(kind, v) ==
    ~(CASE kind = "B" -> parse_bool(v).ok
        [] kind = "I" -> parse_i64(v).ok
        [] kind = "F" -> parse_f64(v).ok
        [] kind = "S" -> parse_String(v).ok)

\* C19: when an entry of the string map names an undeclared key or does not
\* parse to the kind its key was declared with, merge_string_map returns
\* an error of the conversion and the Form is as it was: no value,
\* description or frozen flag is modified.
C19_StringMergeConvertsBeforeStoring ==
    (/\ call.op = "merge_string_map"
     /\ \E k \in DOMAIN call.dict :
          \/ k \notin DOMAIN pre
          \/ ParseFails(get(pre, k).kind, call.dict[k]))
    => /\ out.tag = "Err"
       /\ out.key \in DOMAIN call.dict
       /\ \/ out.why = "is not a valid key" /\ out.key \notin DOMAIN pre
          \/ /\ out.key \in DOMAIN pre
             /\ ParseFails(get(pre, out.key).kind, call.dict[out.key])
             /\ out.why \in {"is a badly formed bool", "is a badly formed int",
                              "is a badly formed float", "is a badly formed string"}
       /\ form = pre

C19_Witness ==
    /\ call.op = "merge_string_map"
    /\ DOMAIN pre = {"a", "b"}
    /\ call.dict = [a |-> "true", b |-> "NaN"]
    /\ get(pre, "a") = [kind |-> "B", v |-> FALSE]
    /\ ~is_frozen(pre, "a")
    /\ out = ConfigError("b", "is a badly formed bool")
    /\ form = pre

\* C20: in every reachable Form, frozen keys included, value_map() has
\* exactly the keys of the Form with value_map()[K] = get(K), and
\* merge_value_map of that map into the Form succeeds, in whatever order the
\* map is iterated, and leaves every value, description and frozen flag as
\* it was.
C20_ValueMapRoundTrip ==
    /\ DOMAIN value_map(form) = DOMAIN form
    /\ \A K \in DOMAIN form : value_map(form)[K] = get(form, K)
    /\ \A order \in Orders(DOMAIN form) :
         LET r == merge_value_map(form, value_map(form), order)
         IN  /\ r.out = Ok
             /\ r.form = form
====
